---- MODULE Spec2Model ----
(***************************************************************************)
(* Model of the outbound dispatch layer, ts/session/sending/MessageQueue.ts *)
(*                                                                         *)
(* A PubKey is an object: a pair <<key, object id>>.  Two PubKey objects   *)
(* with the same key are different references.  A JavaScript Map and       *)
(* lodash's xor compare PubKey objects by reference (SameValueZero).       *)
(*                                                                         *)
(* Every async function is cut at its awaits: the code between two awaits  *)
(* runs without interleaving and is one action.                            *)
(***************************************************************************)
EXTENDS Integers, Sequences, FiniteSets, Bags, TLC

VARIABLES
    phase,        \* "boot" before the constructor body ran, "run" after it
    pending,      \* pendingMessageCache: key -> staged messages, oldest first
    jobQueues,    \* this.jobQueues: PubKey object -> its JobQueue (a FIFO of jobs)
    tasks,        \* suspended calls of queue(device, message), a bag
    call,         \* the send that waits for a directory lookup, if any
    session,      \* keys for which SessionProtocol.hasSession is true
    nsends,       \* number of send operations started so far
    hist,         \* history: the (key, message) pairs ever staged, ever
                  \* delivered, and delivered since they were last staged
    last          \* what the last step did: operation, inputs, collaborator calls

vars == <<phase, pending, jobQueues, tasks, call, session, nsends, hist, last>>

----------------------------------------------------------------------------
(* Bounds *)

MaxSends == 2     \* send operations in one behaviour
MaxJobs == 2      \* jobs outstanding at the same time, over all queues
MaxTasks == 2     \* suspended calls of queue() when a send to one device starts

----------------------------------------------------------------------------
(* Values *)

Keys == {"D1", "D2", "D3"}

\* the PubKey objects that may exist at the same time: <<key, object id>>
ObjIds == {1, 2}
Refs == Keys \X ObjIds
KeyOf(ref) == ref[1]
KeysOf(refs) == {KeyOf(r) : r \in refs}

\* "a": syncable content, "b": content that does not sync,
\* "v": content that claims to sync but whose sync wrapper refuses,
\* "r": session reset, "s": session reset that syncs,
\* "g": closed group message, "o": open group message,
\* "sa", "sv", "ss": the sync wrappers of "a", "v" and "s".
ContentMsgs == {"a", "b", "v", "r", "s"}
GroupMsgs == {"g", "o"}
SyncMsgs == {"sa", "sv", "ss"}
Msgs == ContentMsgs \cup GroupMsgs \cup SyncMsgs

IsSessionResetMessage(m) == m \in {"r", "s"}
IsClosedGroupMessage(m) == m = "g"
IsOpenGroupMessage(m) == m = "o"

\* message.canSync(message)
canSync(m) == m \in {"a", "v", "s"}

\* SyncMessage.from(message)
SyncMessageFrom(m) ==
    CASE m = "a" -> "sa"
      [] m = "v" -> "sv"
      [] m = "s" -> "ss"
      [] OTHER -> m

\* syncMessage.canSync()
syncCanSync(s) == s \in {"sa", "ss"}

\* what the collaborators of processPending answer about a device: a
\* one-to-one conversation, a medium group, or one of the calls of lines
\* 113-117 throws (ConversationController.get finds no conversation)
ConvKinds == {"throws", "private", "medium"}

\* what ConversationController.get(key) may answer for each key: D1 and D3
\* are contacts, D2 is a medium group whose conversation may be missing
Conversations(k) ==
    CASE k = "D1" -> {"private"}
      [] k = "D2" -> {"medium", "throws"}
      [] OTHER -> {"private"}

ConvTables == {cf \in [Keys -> ConvKinds] : \A k \in Keys : cf[k] \in Conversations(k)}

----------------------------------------------------------------------------
(* PendingMessageCache: the Pending Store *)

Contains(seq, m) == \E i \in 1..Len(seq) : seq[i] = m

\* pendingMessageCache.getForDevice(device): by key value, in staging order
getForDevice(p, k) == p[k]

\* pendingMessageCache.getDevices()
getDevices(p) == {k \in Keys : p[k] # <<>>}

\* pendingMessageCache.add(device, message): idempotent append
cacheAdd(p, k, m) ==
    IF Contains(p[k], m) THEN p ELSE [p EXCEPT ![k] = Append(@, m)]

\* pendingMessageCache.remove(message), message being an entry of device k
cacheRemove(p, k, m) ==
    [p EXCEPT ![k] = SelectSeq(@, LAMBDA x : x # m)]

----------------------------------------------------------------------------
(* JobQueue: one serial lane, a FIFO of jobs.  The head job is the one that
   runs; a job starts once every job before it has settled. *)

\* the id under which add(job) registers a job that comes without an id:
\* the queue generates it, it is no message identifier
GeneratedId == "generated"

\* jobQueue.has(id)
JobQueueHas(q, id) == \E i \in 1..Len(q) : q[i].id = id

\* jobQueue.add(async () => MessageSender.send(message))
JobQueueAdd(q, m) == Append(q, [id |-> GeneratedId, msg |-> m, running |-> FALSE])

Outstanding(q, m) == {i \in 1..Len(q) : q[i].msg = m}

----------------------------------------------------------------------------
(* MessageQueue *)

\* getJobQueue(device): Map.get / Map.set on the PubKey object
getJobQueue(jq, ref) ==
    IF ref \in DOMAIN jq THEN jq ELSE jq @@ (ref :> <<>>)

\* the staged messages of the device, the newest first
messagesNewestFirst(p, ref) ==
    [i \in 1..Len(getForDevice(p, KeyOf(ref))) |->
        getForDevice(p, KeyOf(ref))[Len(getForDevice(p, KeyOf(ref))) + 1 - i]]

\* const messages = this.pendingMessageCache.getForDevice(device)
messages(p, ref) == getForDevice(p, KeyOf(ref))

\* messages.forEach of processPending
RECURSIVE SubmitAll(_, _)
SubmitAll(q, msgs) ==
    IF msgs = <<>> THEN q
    ELSE SubmitAll(IF JobQueueHas(q, Head(msgs)) THEN q
                   ELSE JobQueueAdd(q, Head(msgs)),
                   Tail(msgs))

\* a gate that asks for the session of a medium group as well
GateNoBypass(k, c, sess) ==
    IF c = "throws" THEN "throw"
    ELSE IF k \notin sess THEN "closed"
    ELSE "open"

\* a gate that opens for a medium group with a session only
GateEither(k, c, sess) ==
    IF c = "throws" THEN "throw"
    ELSE IF c # "medium" \/ k \notin sess THEN "closed"
    ELSE "open"

\* the outcome of the session gate of processPending for a device whose
\* conversation is of kind c
Gate(k, c, sess) ==
    IF c = "throws" THEN "throw"
    ELSE IF c # "medium" /\ k \notin sess THEN "closed"
    ELSE "open"

\* processPending without the return that follows the session request
processPendingQueuesNoReturn(jq, p, sess, ref, c) ==
    IF Gate(KeyOf(ref), c, sess) # "throw"
    THEN [getJobQueue(jq, ref) EXCEPT ![ref] = SubmitAll(@, messages(p, ref))]
    ELSE jq

\* this.jobQueues after processPending(ref)
processPendingQueues(jq, p, sess, ref, c) ==
    IF Gate(KeyOf(ref), c, sess) = "open"
    THEN [getJobQueue(jq, ref) EXCEPT ![ref] = SubmitAll(@, messages(p, ref))]
    ELSE jq

\* calls of SessionProtocol.sendSessionRequestIfNeeded made by processPending(ref)
processPendingRequests(sess, ref, c) ==
    IF Gate(KeyOf(ref), c, sess) = "closed" THEN 1 ELSE 0

RECURSIVE TotalLen(_, _)
TotalLen(jq, refs) ==
    IF refs = {} THEN 0
    ELSE LET r == CHOOSE x \in refs : TRUE
         IN Len(jq[r]) + TotalLen(jq, refs \ {r})

\* the jobs outstanding for key k, over every queue of a PubKey object of k
JobsOf(jq, k) == TotalLen(jq, {r \in DOMAIN jq : KeyOf(r) = k})

\* per key, the jobs a step added
Submitted(jq, jq2) == [k \in Keys |-> JobsOf(jq2, k) - JobsOf(jq, k)]

Zero == [k \in Keys |-> 0]

\* the observation of a step that did nothing observable
Obs == [op |-> "none", dev |-> "none", msg |-> "none",
        conv |-> "none", gate |-> "none",
        recips |-> {}, own |-> {}, primary |-> {}, sync |-> {},
        invoked |-> {}, failed |-> {}, requests |-> Zero, submitted |-> Zero,
        transport |-> {}, outcome |-> "none", error |-> "none"]

NoCall == [pc |-> "idle", op |-> "none", devs |-> {}, msg |-> "none"]

----------------------------------------------------------------------------
(* PubKey objects *)

TaskRefs == {t.dev : t \in BagToSet(tasks)}

\* the PubKey objects some structure still refers to
UsedRefs == DOMAIN jobQueues \cup TaskRefs \cup call.devs

HasFresh(k) == \E i \in ObjIds : <<k, i>> \notin UsedRefs

\* new PubKey(k): an object no structure refers to
NewPubKey(k) ==
    <<k, CHOOSE i \in ObjIds :
            /\ <<k, i>> \notin UsedRefs
            /\ \A j \in ObjIds : j < i => <<k, j>> \in UsedRefs>>

----------------------------------------------------------------------------
(* Startup *)

\* the stores a restart may find
BootLists == {<<>>, <<"b">>, <<"sa", "b">>}
BootStores == [Keys -> BootLists]

\* the process starts with the store a restart finds; the constructor has
\* not run yet
InitBoot ==
    /\ phase = "boot"
    /\ pending \in BootStores
    /\ jobQueues = <<>>
    /\ tasks = EmptyBag
    /\ call = NoCall
    /\ session = {}
    /\ nsends = 0
    /\ hist = [staged |-> {x \in Keys \X Msgs : Contains(pending[x[1]], x[2])},
               delivered |-> {}, done |-> {}]
    /\ last = Obs

\* a fresh process, constructed over an empty store
Init ==
    /\ phase = "run"
    /\ pending = [k \in Keys |-> <<>>]
    /\ jobQueues = <<>>
    /\ tasks = EmptyBag
    /\ call = NoCall
    /\ session = {}
    /\ nsends = 0
    /\ hist = [staged |-> {}, delivered |-> {}, done |-> {}]
    /\ last = Obs

\* the session collaborator learns of a secure channel with k
EstablishSession(k) ==
    /\ k \notin session
    /\ session' = session \cup {k}
    /\ last' = [Obs EXCEPT !.op = "session", !.dev = k]
    /\ UNCHANGED <<phase, pending, jobQueues, tasks, call, nsends, hist>>

\* a loop that stops at the device whose processPending throws
processAllInvokedAbort(devs, cf) ==
    IF \E d \in devs : cf[KeyOf(d)] = "throws"
    THEN {d \in devs : cf[KeyOf(d)] = "throws"}
    ELSE devs

\* devices.map(async device => this.processPending(device)): the devices
\* processPending is invoked for, cf giving the conversation kind of each
processAllInvoked(devs, cf) == devs

RECURSIVE processAllQueues(_, _, _, _, _)
processAllQueues(jq, p, sess, devs, cf) ==
    IF devs = {} THEN jq
    ELSE LET d == CHOOSE x \in devs : TRUE
         IN processAllQueues(processPendingQueues(jq, p, sess, d, cf[KeyOf(d)]),
                             p, sess, devs \ {d}, cf)

\* constructor: processAllPending() runs every processPending up to its
\* first await before the constructor returns
Constructor(cf) ==
    /\ phase = "boot"
    /\ phase' = "run"
    /\ LET devs == {NewPubKey(k) : k \in getDevices(pending)}
           inv == processAllInvoked(devs, cf)
       IN /\ jobQueues' = processAllQueues(jobQueues, pending, session, inv, cf)
          /\ last' = [Obs EXCEPT
                !.op = "constructor",
                !.recips = getDevices(pending),
                !.invoked = KeysOf(inv),
                !.requests = [k \in Keys |->
                    Cardinality({d \in inv : /\ KeyOf(d) = k
                        /\ processPendingRequests(session, d, cf[k]) = 1})],
                !.submitted = Submitted(jobQueues, jobQueues'),
                !.failed = {KeyOf(d) : d \in {x \in inv : cf[KeyOf(x)] = "throws"}},
                !.error = IF \E d \in inv : cf[KeyOf(d)] = "throws"
                          THEN "TypeError" ELSE "none"]
    /\ UNCHANGED <<pending, tasks, call, session, nsends, hist>>

----------------------------------------------------------------------------
(* processPending *)

\* processPending(ref), from its call to its return: lines 113-139 hold no
\* await but the one of the session request, after which it returns; m is
\* the message of the queue() that calls it, "none" for another caller
ProcessPendingStep(ref, c, m) ==
    /\ \/ Gate(KeyOf(ref), c, session) # "open"
       \/ TotalLen(jobQueues, DOMAIN jobQueues)
            + Len(getForDevice(pending, KeyOf(ref))) <= MaxJobs
    /\ jobQueues' = processPendingQueues(jobQueues, pending, session, ref, c)
    /\ last' = [Obs EXCEPT
            !.op = "processPending",
            !.dev = KeyOf(ref),
            !.msg = m,
            !.conv = c,
            !.gate = Gate(KeyOf(ref), c, session),
            !.failed = IF c = "throws" THEN {KeyOf(ref)} ELSE {},
            !.requests = [Zero EXCEPT ![KeyOf(ref)] =
                              processPendingRequests(session, ref, c)],
            !.submitted = Submitted(jobQueues, jobQueues'),
            !.error = IF c = "throws" THEN "TypeError" ELSE "none"]
    /\ UNCHANGED <<phase, pending, call, session, nsends>>

\* a caller invokes the public processPending(device)
ProcessPending(ref, c) ==
    /\ phase = "run"
    /\ ProcessPendingStep(ref, c, "none")
    /\ UNCHANGED <<tasks, hist>>

----------------------------------------------------------------------------
(* queue(device, message): await add, then await processPending *)

Task(ref, m, pc) == [dev |-> ref, msg |-> m, pc |-> pc]

\* the calls of queue(device, message) that get past the session reset check
queueCalls(refs, m) ==
    IF IsSessionResetMessage(m) THEN {} ELSE {Task(r, m, "add") : r \in refs}

\* pendingMessageCache.add(device, message) takes effect
QueueAdd(t) ==
    /\ BagIn(t, tasks)
    /\ t.pc = "add"
    /\ pending' = cacheAdd(pending, KeyOf(t.dev), t.msg)
    /\ tasks' = (tasks (-) SetToBag({t})) (+) SetToBag({[t EXCEPT !.pc = "process"]})
    /\ hist' = [hist EXCEPT !.staged = @ \cup {<<KeyOf(t.dev), t.msg>>},
                            !.done = @ \ {<<KeyOf(t.dev), t.msg>>}]
    /\ last' = [Obs EXCEPT !.op = "add", !.dev = KeyOf(t.dev), !.msg = t.msg]
    /\ UNCHANGED <<phase, jobQueues, call, session, nsends>>

\* a fan-out that awaits its devices one after the other: the call that
\* throws takes the calls that come after it along
afterThrowSequential(ts, t) == EmptyBag

\* the suspended calls of queue() once the call t has thrown: every call is
\* the promise of its own forEach callback, t rejects alone
afterThrow(ts, t) == ts (-) SetToBag({t})

\* pendingMessageCache.add(device, message) rejects: queue() throws at line
\* 154, nothing is staged and processPending is not reached
QueueAddFails(t) ==
    /\ BagIn(t, tasks)
    /\ t.pc = "add"
    /\ tasks' = afterThrow(tasks, t)
    /\ last' = [Obs EXCEPT !.op = "add", !.dev = KeyOf(t.dev), !.msg = t.msg,
                           !.failed = {KeyOf(t.dev)},
                           !.outcome = "rejected",
                           !.error = "StorageFailed"]
    /\ UNCHANGED <<phase, pending, jobQueues, call, session, nsends, hist>>

\* the processPending(device) of queue
QueueProcess(t, c) ==
    /\ BagIn(t, tasks)
    /\ t.pc = "process"
    /\ ProcessPendingStep(t.dev, c, t.msg)
    /\ tasks' = IF Gate(KeyOf(t.dev), c, session) = "throw"
                THEN afterThrow(tasks, t)
                ELSE tasks (-) SetToBag({t})
    /\ UNCHANGED hist

----------------------------------------------------------------------------
(* the jobs of a JobQueue *)

\* the head job starts: MessageSender.send(message)
StartJob(ref) ==
    /\ ref \in DOMAIN jobQueues
    /\ jobQueues[ref] # <<>>
    /\ ~jobQueues[ref][1].running
    /\ jobQueues' = [jobQueues EXCEPT ![ref][1].running = TRUE]
    /\ last' = [Obs EXCEPT !.op = "start", !.dev = KeyOf(ref),
                           !.msg = jobQueues[ref][1].msg,
                           !.transport = {jobQueues[ref][1].msg}]
    /\ UNCHANGED <<phase, pending, tasks, call, session, nsends, hist>>

\* the entry removed in a finally instead of a then
settledCacheFinally(p, k, m, ok) == cacheRemove(p, k, m)

\* the store after the promise of a job of message m for key k settled
settledCache(p, k, m, ok) == IF ok THEN cacheRemove(p, k, m) ELSE p

\* the promise of the job without its catch
settledErrorUncaught(ok) == IF ok THEN "none" ELSE "DeliveryFailed"

\* the error that leaves the layer when the promise of a job settled
settledError(ok) == "none"

\* the running job settles: .then removes the entry, .catch swallows
SettleJob(ref, ok) ==
    /\ ref \in DOMAIN jobQueues
    /\ jobQueues[ref] # <<>>
    /\ jobQueues[ref][1].running
    /\ jobQueues' = [jobQueues EXCEPT ![ref] = Tail(@)]
    /\ pending' = settledCache(pending, KeyOf(ref), jobQueues[ref][1].msg, ok)
    /\ last' = [Obs EXCEPT !.op = "settle", !.dev = KeyOf(ref),
                           !.msg = jobQueues[ref][1].msg,
                           !.outcome = IF ok THEN "success" ELSE "failure",
                           !.error = settledError(ok)]
    /\ hist' = IF ok
               THEN [hist EXCEPT
                        !.delivered = @ \cup {<<KeyOf(ref), jobQueues[ref][1].msg>>},
                        !.done = @ \cup {<<KeyOf(ref), jobQueues[ref][1].msg>>}]
               ELSE hist
    /\ UNCHANGED <<phase, tasks, call, session, nsends>>

----------------------------------------------------------------------------
(* the send operations *)

\* _.xor(currentDevices, ourDevices) on arrays of PubKey objects: the
\* objects that are in exactly one of the two arrays
xor(A, B) == (A \ B) \cup (B \ A)

\* a sync branch that does not ask the wrapper
syncAppliesNoVeto(m) == canSync(m)

\* the send goes to the own devices: the message says it syncs (line 57) and
\* the wrapper sendSyncMessage builds agrees (lines 99-102)
syncApplies(m) == canSync(m) /\ syncCanSync(SyncMessageFrom(SyncMessageFrom(m)))

\* sendMessageToDevices(devices, message) up to its first await, or to its
\* end when the message does not sync
SendBody(opname, R, m) ==
    IF syncApplies(m)
    THEN /\ call' = [pc |-> "own", op |-> opname, devs |-> R, msg |-> m]
         /\ last' = [Obs EXCEPT !.op = opname, !.msg = m, !.recips = KeysOf(R),
                                !.outcome = "waiting"]
         /\ UNCHANGED tasks
    ELSE LET ts == queueCalls(xor(R, {}), m)
         IN /\ call' = NoCall
            /\ tasks' = tasks (+) SetToBag(ts)
            /\ last' = [Obs EXCEPT !.op = opname, !.msg = m, !.recips = KeysOf(R),
                                   !.primary = {KeyOf(t.dev) : t \in ts},
                                   !.outcome = "resolved"]

\* the arrays of PubKey objects callers pass to sendMessageToDevices
RecipientSets == {R \in SUBSET (Keys \X {1}) : Cardinality(R) \in {1, 2}}

\* send(device, message)
Send(ref, m) ==
    /\ phase = "run"
    /\ call.pc = "idle"
    /\ nsends < MaxSends
    /\ BagCardinality(tasks) < MaxTasks
    /\ nsends' = nsends + 1
    /\ SendBody("send", {ref}, m)
    /\ UNCHANGED <<phase, pending, jobQueues, session, hist>>

\* sendMessageToDevices(devices, message)
SendMessageToDevices(R, m) ==
    /\ phase = "run"
    /\ call.pc = "idle"
    /\ nsends < MaxSends
    /\ nsends' = nsends + 1
    /\ SendBody("sendMessageToDevices", R, m)
    /\ UNCHANGED <<phase, pending, jobQueues, session, hist>>

\* a send that goes on to its recipients after the lookup failed
lookupFailedCallsPartial(R, m) == queueCalls(R, m)

\* the calls of queue() a send makes once a directory lookup it awaits has
\* failed: the rejection leaves the function at its await
lookupFailedCalls(R, m) == {}

\* sendUsingMultiDevice(user, message) up to the await of the directory
\* lookup of line 41
SendUsingMultiDevice(user, m) ==
    /\ phase = "run"
    /\ call.pc = "idle"
    /\ nsends < MaxSends
    /\ nsends' = nsends + 1
    /\ call' = [pc |-> "linked", op |-> "sendUsingMultiDevice", devs |-> {user}, msg |-> m]
    /\ last' = [Obs EXCEPT !.op = "sendUsingMultiDevice", !.msg = m,
                           !.outcome = "waiting"]
    /\ UNCHANGED <<phase, pending, jobQueues, tasks, session, hist>>

\* Data.getPairedDevicesFor(user.key) answers: with the linked keys L, or
\* with a failure of the directory lookup
LinkedDevices(ok, L) ==
    /\ call.pc = "linked"
    /\ IF ok
       THEN /\ \A k \in L : HasFresh(k)
            /\ SendBody("sendUsingMultiDevice", {NewPubKey(k) : k \in L}, call.msg)
       ELSE /\ L = {}
            /\ call' = NoCall
            /\ last' = [Obs EXCEPT !.op = call.op, !.msg = call.msg,
                                   !.outcome = "rejected",
                                   !.error = "ResolutionFailed"]
            /\ tasks' = tasks (+) SetToBag(lookupFailedCalls(call.devs, call.msg))
    /\ UNCHANGED <<phase, pending, jobQueues, session, nsends, hist>>

\* the devices the primary message is queued for
primaryDevices(R, ourDevices) == xor(R, ourDevices)

\* getOurDevices() answers while sendSyncMessage waits for it: with the own
\* keys O, or with a failure of the directory lookup
OurDevices(ok, O) ==
    /\ call.pc = "own"
    /\ IF ok
       THEN /\ \A k \in O : HasFresh(k)
            /\ LET ourDevices == {NewPubKey(k) : k \in O}
                   syncTasks == queueCalls(ourDevices, SyncMessageFrom(call.msg))
                   primTasks == queueCalls(primaryDevices(call.devs, ourDevices), call.msg)
               IN /\ tasks' = tasks (+) SetToBag(syncTasks) (+) SetToBag(primTasks)
                  /\ last' = [Obs EXCEPT !.op = call.op, !.msg = call.msg,
                                !.recips = KeysOf(call.devs), !.own = O,
                                !.primary = {KeyOf(t.dev) : t \in primTasks},
                                !.sync = {KeyOf(t.dev) : t \in syncTasks},
                                !.outcome = "resolved"]
       ELSE /\ O = {}
            /\ last' = [Obs EXCEPT !.op = call.op, !.msg = call.msg,
                                   !.recips = KeysOf(call.devs),
                                   !.outcome = "rejected",
                                   !.error = "ResolutionFailed"]
            /\ tasks' = tasks (+) SetToBag(lookupFailedCalls(call.devs, call.msg))
    /\ call' = NoCall
    /\ UNCHANGED <<phase, pending, jobQueues, session, nsends, hist>>

\* sendToGroup(message)
SendToGroup(m) ==
    /\ phase = "run"
    /\ nsends < MaxSends
    /\ nsends' = nsends + 1
    /\ last' = [Obs EXCEPT !.op = "sendToGroup", !.msg = m,
                  \* [...devices] with devices = 5 throws: 5 is not iterable
                  !.outcome = IF IsClosedGroupMessage(m) THEN "rejected" ELSE "resolved",
                  !.error = IF IsClosedGroupMessage(m) THEN "TypeError" ELSE "none"]
    /\ UNCHANGED <<phase, pending, jobQueues, tasks, call, session, hist>>

----------------------------------------------------------------------------

\* the messages callers send to one device, to several devices, to a group
SendMsgs == {"b", "v"}
FanoutMsgs == {"a", "b", "v", "r", "s"}
GroupSendMsgs == {"o", "g"}

\* the users callers of sendUsingMultiDevice address, the messages they send
\* and the answers of the directory for the devices linked to a user
Users == {<<"D1", 1>>}
MultiDeviceMsgs == {"a", "r"}
LinkedSets == {L \in SUBSET Keys : Cardinality(L) \in {1, 2}}

\* the answers of the directory for the own devices
OwnSets == {O \in SUBSET Keys : Cardinality(O) \in {0, 1, 2}}

\* the keys the session collaborator may get a channel with
SessionKeys == {k \in Keys : "private" \in Conversations(k)}

Jobs ==
    \/ \E ref \in Refs : StartJob(ref)
    \/ \E ref \in Refs, ok \in BOOLEAN : SettleJob(ref, ok)

Queueing ==
    \/ \E t \in BagToSet(tasks) : QueueAdd(t)
    \/ \E t \in BagToSet(tasks) : \E c \in Conversations(KeyOf(t.dev)) : QueueProcess(t, c)

\* the PubKey objects callers of send hold: two objects of key D1, one of
\* key D2
CoreRefs == {<<"D1", 1>>, <<"D1", 2>>, <<"D2", 1>>}

\* the PubKey objects callers of the public processPending hold: the two
\* objects of key D1
PendingRefs == {<<"D1", 1>>, <<"D1", 2>>}

\* the pipeline of one device at a time
Next ==
    \/ \E k \in SessionKeys \cap KeysOf(CoreRefs) : EstablishSession(k)
    \/ \E ref \in PendingRefs : \E c \in Conversations(KeyOf(ref)) : ProcessPending(ref, c)
    \/ \E ref \in CoreRefs, m \in SendMsgs : Send(ref, m)
    \/ \E m \in GroupSendMsgs : SendToGroup(m)
    \/ Queueing
    \/ Jobs

Spec == Init /\ [][Next]_vars

\* a restart over a store that holds messages
NextBoot ==
    \/ \E k \in SessionKeys : EstablishSession(k)
    \/ \E cf \in ConvTables : Constructor(cf)
    \/ Jobs

SpecBoot == InitBoot /\ [][NextBoot]_vars

\* one send to several devices, with the sync branch
NextFanout ==
    \/ \E R \in RecipientSets, m \in FanoutMsgs : nsends = 0 /\ SendMessageToDevices(R, m)
    \/ \E u \in Users, m \in MultiDeviceMsgs : nsends = 0 /\ SendUsingMultiDevice(u, m)
    \/ \E ok \in BOOLEAN, L \in LinkedSets \cup {{}} : LinkedDevices(ok, L)
    \/ \E ok \in BOOLEAN, O \in OwnSets : OurDevices(ok, O)
    \/ Queueing
    \/ \E t \in BagToSet(tasks) : QueueAddFails(t)

SpecFanout == Init /\ [][NextFanout]_vars

\* one message, sent to one device again and again; every job comes from a send
NextResend ==
    \/ \E k \in SessionKeys \cap KeysOf(CoreRefs) : EstablishSession(k)
    \/ \E ref \in CoreRefs : Send(ref, "b")
    \/ Queueing
    \/ Jobs

SpecResend == Init /\ [][NextResend]_vars

\* the PubKey object the sends and the drain passes of one device go through
RetryRefs == {<<"D1", 1>>}

DrainPass == \E ref \in RetryRefs : \E c \in Conversations(KeyOf(ref)) : ProcessPending(ref, c)
JobStart == \E ref \in Refs : StartJob(ref)
JobSuccess == \E ref \in Refs : SettleJob(ref, TRUE)

\* one device whose deliveries may fail, drained again and again
NextRetry ==
    \/ \E k \in KeysOf(RetryRefs) : EstablishSession(k)
    \/ DrainPass
    \/ \E ref \in RetryRefs, m \in SendMsgs : Send(ref, m)
    \/ Queueing
    \/ Jobs

\* the device gets a session, processPending is invoked again and again,
\* every call of queue() and every queue goes on, and the transport does
\* not fail for ever
SpecRetry ==
    /\ Init
    /\ [][NextRetry]_vars
    /\ \A k \in KeysOf(RetryRefs) : WF_vars(EstablishSession(k))
    /\ WF_vars(DrainPass)
    /\ WF_vars(Queueing)
    /\ WF_vars(JobStart)
    /\ SF_vars(JobSuccess)

----------------------------------------------------------------------------
(* Properties *)

\* the jobs of message m outstanding for key k: <<PubKey object, position>>
OutstandingJobs(k, m) ==
    UNION {{<<r, i>> : i \in Outstanding(jobQueues[r], m)} :
              r \in {x \in DOMAIN jobQueues : KeyOf(x) = k}}

\* the PubKey objects of key k whose queue runs a job
RunningJobs(k) ==
    {r \in DOMAIN jobQueues :
        KeyOf(r) = k /\ jobQueues[r] # <<>> /\ jobQueues[r][1].running}

\* C1: a (device key, message identifier) pair never has more than one
\* outstanding delivery job
C1_AtMostOneOutstandingJob ==
    \A k \in Keys, m \in Msgs : Cardinality(OutstandingJobs(k, m)) <= 1

\* C2: the delivery jobs of one device key never run at the same time,
\* whatever PubKey objects they were submitted through
C2_SerialPerDevice ==
    \A k \in Keys : Cardinality(RunningJobs(k)) <= 1

\* C3: a processPending(D) that finds no session for a D that is no medium
\* group submits no job, leaves the store as it is and asks for a session
\* exactly once
C3_SessionGate ==
    [][(/\ last'.op = "processPending"
        /\ last'.conv = "private"
        /\ last'.dev \notin session)
       => (/\ jobQueues' = jobQueues
           /\ pending' = pending
           /\ last'.submitted = Zero
           /\ last'.requests = [Zero EXCEPT ![last'.dev] = 1])]_vars

\* witness of C3: processPending met the closed gate with messages staged
C3_Witness ==
    /\ last.op = "processPending"
    /\ last.conv = "private"
    /\ last.dev \notin session
    /\ Len(pending[last.dev]) = 2

\* a sendMessageToDevices of a message that is no session reset went through
\* the sync branch and has resolved
SyncSendResolved ==
    /\ last.op = "sendMessageToDevices"
    /\ last.outcome = "resolved"
    /\ ~IsSessionResetMessage(last.msg)
    /\ canSync(last.msg)
    /\ syncCanSync(SyncMessageFrom(SyncMessageFrom(last.msg)))

SymmetricDifference(A, B) == (A \ B) \cup (B \ A)

\* C4: a syncable send to the recipients R with own devices O stages the
\* message for the keys of the symmetric difference of R and O, and the sync
\* message for the keys of O
C4_SyncExclusion ==
    SyncSendResolved =>
        /\ last.primary = SymmetricDifference(last.recips, last.own)
        /\ last.sync = last.own

\* C5: after sync splitting no device key gets both the message and its sync
\* replica, and the replica goes to own devices only
C5_SyncDisjoint ==
    SyncSendResolved =>
        /\ last.primary \cap last.sync = {}
        /\ last.sync \subseteq last.own

Entries(k, m) == {i \in 1..Len(pending[k]) : pending[k][i] = m}

\* C6: an entry that was accepted is in the store if and only if no job of
\* its message to its device has succeeded
C6_StagedIffUndelivered ==
    \A x \in hist.staged :
        Contains(pending[x[1]], x[2]) <=> x \notin hist.delivered

\* C6, amended: an entry that was accepted is in the store if and only if
\* no job of its message to its device has succeeded since it was last
\* staged; a step removes an entry only when a job of that message to that
\* device succeeds, that success leaves the pair without entry, and no step
\* removes any other entry
C6_RemovedOnlyBySuccess ==
    [][/\ \A x \in hist'.staged :
            Contains(pending'[x[1]], x[2]) <=> x \notin hist'.done
       /\ \A k \in Keys, m \in Msgs :
            (Contains(pending[k], m) /\ ~Contains(pending'[k], m))
            => (/\ last'.op = "settle"
                /\ last'.outcome = "success"
                /\ last'.dev = k
                /\ last'.msg = m)
       /\ (last'.op = "settle" /\ last'.outcome = "success")
            => ~Contains(pending'[last'.dev], last'.msg)]_vars

\* witness of C6: a job succeeded, its entry is gone, another entry of the
\* same device is still staged
C6_Witness ==
    /\ last.op = "settle"
    /\ last.outcome = "success"
    /\ <<last.dev, last.msg>> \in hist.staged
    /\ ~Contains(pending[last.dev], last.msg)
    /\ pending[last.dev] # <<>>

\* C7: a failing job surfaces no error and changes nothing in the store
C7_FailureSwallowed ==
    [][(last'.op = "settle" /\ last'.outcome = "failure")
       => (/\ last'.error = "none"
           /\ pending' = pending)]_vars

\* witness of C7: a job failed while its entry and an entry of another
\* device were staged
C7_Witness ==
    /\ last.op = "settle"
    /\ last.outcome = "failure"
    /\ Contains(pending[last.dev], last.msg)
    /\ \E k \in Keys \ {last.dev} : pending[k] # <<>>

\* C8: whatever number of times a message is sent to a device, the store
\* holds one entry for the pair until it is delivered, and the pair has at
\* most one outstanding job
C8_IdempotentStaging ==
    \A k \in Keys, m \in Msgs :
        /\ Cardinality(Entries(k, m)) <= 1
        /\ (<<k, m>> \in hist.staged \ hist.delivered
                => Cardinality(Entries(k, m)) = 1)
        /\ Cardinality(OutstandingJobs(k, m)) <= 1

\* C9: the constructor invokes processPending for every device with staged
\* messages; unless the processing of that device throws, its messages are
\* all submitted or a session is requested for it
C9_StartupRecovery ==
    last.op = "constructor" =>
        \A k \in getDevices(pending) :
            /\ k \in last.invoked
            /\ \/ k \in last.failed
               \/ \A i \in 1..Len(pending[k]) : OutstandingJobs(k, pending[k][i]) # {}
               \/ k \notin session /\ last.requests[k] = 1

\* witness of C9: the processing of one device threw, another device had its
\* messages submitted and a third one a session requested
C9_Witness ==
    /\ last.op = "constructor"
    /\ last.failed # {}
    /\ \E k \in getDevices(pending) \ last.failed : last.requests[k] = 1
    /\ \E k \in getDevices(pending) \ last.failed : last.submitted[k] = 2

\* C10: sendToGroup hands an open group message to the transport, and
\* touches neither the store nor the queues nor the session gate
C10_OpenGroupDirect ==
    [][(last'.op = "sendToGroup" /\ IsOpenGroupMessage(last'.msg))
       => (/\ last'.msg \in last'.transport
           /\ pending' = pending
           /\ jobQueues' = jobQueues
           /\ tasks' = tasks
           /\ last'.requests = Zero)]_vars

\* the member devices of the closed group the message is addressed to
GroupMembers == {<<"D1", 1>>, <<"D2", 1>>}

\* C11: sendToGroup of a closed group message behaves as sendMessageToDevices
\* on the member devices of the group: it completes without error and the
\* message is on its way to the store for every member device
C11_ClosedGroupFanout ==
    [][(last'.op = "sendToGroup" /\ IsClosedGroupMessage(last'.msg))
       => (/\ last'.outcome = "resolved"
           /\ last'.error = "none"
           /\ \A r \in GroupMembers :
                \E t \in BagToSet(tasks') :
                    t.msg = last'.msg /\ KeyOf(t.dev) = KeyOf(r))]_vars

\* the operations that send a content message
SendOps == {"send", "sendUsingMultiDevice", "sendMessageToDevices"}

\* C12: a send of a session reset message changes neither the store nor the
\* queues and starts no queue() call that stages and processes, whatever
\* operation it enters through, the sync branch included; no session reset
\* message is ever staged, submitted or on its way to the store
C12_SessionResetDropped ==
    [][/\ (last'.op \in SendOps /\ IsSessionResetMessage(last'.msg))
            => (/\ pending' = pending
                /\ jobQueues' = jobQueues
                /\ tasks' = tasks)
       /\ \A t \in BagToSet(tasks') : ~IsSessionResetMessage(t.msg)
       /\ \A x \in hist'.staged : ~IsSessionResetMessage(x[2])]_vars

\* C13: a send whose directory lookup fails rejects with that failure, and
\* has staged nothing and called queue() for no device: the store and the
\* queues are as before the call
C13_LookupFailureAborts ==
    [][(last'.op \in SendOps /\ last'.error = "ResolutionFailed")
       => (/\ last'.outcome = "rejected"
           /\ pending' = pending
           /\ jobQueues' = jobQueues
           /\ tasks' = EmptyBag
           /\ hist' = hist
           /\ call' = NoCall)]_vars

\* witness of C13: the lookup of the own devices failed in a send to two
\* recipients
C13_Witness ==
    /\ last.op = "sendMessageToDevices"
    /\ last.error = "ResolutionFailed"
    /\ last.outcome = "rejected"
    /\ Cardinality(last.recips) = 2
    /\ tasks = EmptyBag

\* the suspended calls of queue() that a step ends or moves on
LeftCalls == {t \in BagToSet(tasks) : CopiesIn(t, tasks') < CopiesIn(t, tasks)}

\* C14: in a fan-out every device is processed on its own: a step ends or
\* moves on one call of queue() at most, and it is the step of that call; a
\* call that throws or is deferred at the session gate leaves the store and
\* the calls of the other devices as they are; and a call that waits for
\* its staging can always stage
C14_FanoutIsolation ==
    /\ [][/\ Cardinality(LeftCalls) <= 1
          /\ \A t \in LeftCalls :
                /\ CopiesIn(t, tasks') = CopiesIn(t, tasks) - 1
                /\ last'.dev = KeyOf(t.dev)
                /\ last'.op = IF t.pc = "add" THEN "add" ELSE "processPending"
                /\ (t.pc = "add" /\ last'.error = "none")
                     => (/\ last'.msg = t.msg
                         /\ Contains(pending'[KeyOf(t.dev)], t.msg)
                         /\ BagIn([t EXCEPT !.pc = "process"], tasks'))
          /\ (last'.failed # {} \/ last'.gate = "closed") => pending' = pending]_vars
    /\ [](\A t \in BagToSet(tasks) : t.pc = "add" => ENABLED QueueAdd(t))

\* witness of C14: the processing of one device threw while the call of
\* another device of the same fan-out still waits for its staging
C14_Witness ==
    /\ last.op = "processPending"
    /\ last.error = "TypeError"
    /\ \E t \in BagToSet(tasks) : t.pc = "add" /\ KeyOf(t.dev) # last.dev

JobsFor(seq) == [i \in 1..Len(seq) |-> [id |-> GeneratedId, msg |-> seq[i], running |-> FALSE]]

QueueOf(jq, ref) == IF ref \in DOMAIN jq THEN jq[ref] ELSE <<>>

\* C16: a processPending(D) that passes the session gate appends to the
\* queue of D one job per staged message, in staging order; a queue starts
\* its head job only, and only after the job before it has settled, so the
\* attempt of m1 starts and settles before the attempt of m2 of the same
\* pass starts; a successful delivery removes its own entry and leaves the
\* later entries staged, in their order
C16_PerDeviceOrdering ==
    [][/\ (last'.op = "processPending" /\ last'.gate = "open")
            => \E ref \in DOMAIN jobQueues' :
                 /\ KeyOf(ref) = last'.dev
                 /\ jobQueues'[ref] = QueueOf(jobQueues, ref) \o JobsFor(pending[last'.dev])
                 /\ \A r \in DOMAIN jobQueues' \ {ref} :
                        r \in DOMAIN jobQueues /\ jobQueues'[r] = jobQueues[r]
       /\ \A r \in DOMAIN jobQueues :
            /\ r \in DOMAIN jobQueues'
            /\ \/ \E seq \in {<<>>} \cup {pending[KeyOf(r)]} :
                     jobQueues'[r] = jobQueues[r] \o JobsFor(seq)
               \/ /\ jobQueues[r] # <<>>
                  /\ ~jobQueues[r][1].running
                  /\ last'.op = "start"
                  /\ jobQueues'[r] = [jobQueues[r] EXCEPT ![1].running = TRUE]
               \/ /\ jobQueues[r] # <<>>
                  /\ jobQueues[r][1].running
                  /\ last'.op = "settle"
                  /\ jobQueues'[r] = Tail(jobQueues[r])
       /\ \A r \in DOMAIN jobQueues' :
            \A i \in 2..Len(jobQueues'[r]) : ~jobQueues'[r][i].running
       /\ (last'.op = "settle" /\ last'.outcome = "success")
            => pending' = [pending EXCEPT ![last'.dev] =
                              SelectSeq(@, LAMBDA x : x # last'.msg)]]_vars

\* witness of C16: m1 was staged before m2, both were submitted by one pass,
\* the job of m1 succeeded and its entry is gone while m2 is staged and its
\* job has not started
C16_Witness ==
    /\ last.op = "settle"
    /\ last.outcome = "success"
    /\ Len(pending[last.dev]) = 1
    /\ pending[last.dev][1] # last.msg
    /\ \E r \in DOMAIN jobQueues :
          /\ KeyOf(r) = last.dev
          /\ Len(jobQueues[r]) = 1
          /\ jobQueues[r][1].msg = pending[last.dev][1]
          /\ ~jobQueues[r][1].running
    /\ Cardinality({r \in DOMAIN jobQueues : jobQueues[r] # <<>>}) = 1

\* the jobs of message m in the queues jq of the PubKey objects of key k
JobsIn(jq, k, m) ==
    UNION {{<<r, i>> : i \in Outstanding(jq[r], m)} :
              r \in {x \in DOMAIN jq : KeyOf(x) = k}}

\* C17: a processPending that passes the session gate submits a job for
\* every staged message that has no outstanding job, the messages whose job
\* failed included; and, the device getting a session, the passes going on
\* and the transport succeeding in the end, every staged message is
\* delivered and its entry removed
C17_RetryLiveness ==
    /\ [][(last'.op = "processPending" /\ last'.gate = "open")
          => \A m \in Msgs :
                Contains(pending[last'.dev], m)
                  => Cardinality(JobsIn(jobQueues', last'.dev, m))
                        > Cardinality(JobsIn(jobQueues, last'.dev, m))]_vars
    /\ \A k \in KeysOf(RetryRefs), m \in SendMsgs :
          Contains(pending[k], m)
            ~> (<<k, m>> \in hist.done /\ ~Contains(pending[k], m))

\* witness of C17: of two messages one was delivered; the job of the other
\* one has failed and, the queue being empty, a pass that no queue() made
\* has submitted it again
C17_Witness ==
    /\ last.op = "processPending"
    /\ last.msg = "none"
    /\ last.gate = "open"
    /\ last.submitted[last.dev] = 1
    /\ TotalLen(jobQueues, DOMAIN jobQueues) = 1
    /\ tasks = EmptyBag
    /\ Len(pending[last.dev]) = 1
    /\ <<last.dev, pending[last.dev][1]>> \notin hist.delivered
    /\ \E m \in SendMsgs : <<last.dev, m>> \in hist.done

\* C18: the map of queues holds one queue per device key at most, whatever
\* PubKey objects the queue was asked for through, and a queue once created
\* stays in the map
C18_OneQueuePerDevice ==
    [][/\ \A r1, r2 \in DOMAIN jobQueues' : KeyOf(r1) = KeyOf(r2) => r1 = r2
       /\ DOMAIN jobQueues \subseteq DOMAIN jobQueues']_vars

\* C19: a processPending(D) for a medium group D without session passes the
\* gate: it asks for no session and every staged message of D that has no
\* outstanding job gets one, the store staying as it is
C19_MediumGroupBypass ==
    [][(/\ last'.op = "processPending"
        /\ last'.conv = "medium"
        /\ last'.dev \notin session)
       => (/\ last'.gate = "open"
           /\ last'.requests = Zero
           /\ last'.error = "none"
           /\ pending' = pending
           /\ \A m \in Msgs :
                (Contains(pending[last'.dev], m) /\ JobsIn(jobQueues, last'.dev, m) = {})
                   => JobsIn(jobQueues', last'.dev, m) # {})]_vars

\* witness of C19: two messages were staged for a medium group without
\* session and a pass has submitted both
C19_Witness ==
    /\ last.op = "processPending"
    /\ last.conv = "medium"
    /\ last.dev \notin session
    /\ Len(pending[last.dev]) = 2
    /\ last.submitted[last.dev] = 2

\* C20: when the promise of a send of a message that is no session reset has
\* resolved, the message is staged or delivered for every primary recipient
\* and its sync message for every own device
C20_ResolvedImpliesStaged ==
    (/\ last.op \in SendOps
     /\ last.outcome = "resolved"
     /\ ~IsSessionResetMessage(last.msg))
    => (/\ \A k \in last.primary :
              \/ Contains(pending[k], last.msg)
              \/ <<k, last.msg>> \in hist.delivered
        /\ \A k \in last.sync :
              \/ Contains(pending[k], SyncMessageFrom(last.msg))
              \/ <<k, SyncMessageFrom(last.msg)>> \in hist.delivered)

====
